---- MODULE Spec2Model ----
(***************************************************************************)
(* txtimg (crates/txtimg/src/lib.rs): a raster image is turned into a grid *)
(* of character cells (TextImage::from_image) and the grid is serialised   *)
(* into a string of ANSI true-colour runs (TextImage::to_buffer).          *)
(*                                                                         *)
(* Text is a sequence of one-character strings; the token "ESC" stands for *)
(* the single byte 0x1B.  Option<T> is a sequence of length 0 (None) or 1  *)
(* (Some).  An RGB triple is <<r, g, b>> with 8-bit channels.              *)
(*                                                                         *)
(* The styling helper that to_buffer calls (truecolor, on_truecolor and    *)
(* the Display of the styled string) is an external collaborator; it is    *)
(* modelled by the escape sequences the specification gives for it:        *)
(* ESC[38;2;r;g;bm, ESC[48;2;r;g;bm and the reset ESC[0m.                  *)
(***************************************************************************)
EXTENDS Integers, Sequences, FiniteSets, TLC

\* ------------------------------------------------------------------ bounds
\* most cells of a raster handed to from_image
MaxCells == 4
\* most cells of a TextImage written as a struct literal inside the crate
MaxLiteralCells == 2
\* most to_buffer calls on one TextImage
MaxCalls == 2
\* the channel values probed: 0..ChanLow, 255-ChanLow..255, multiples of ChanStep
ChanLow == 3
ChanStep == 64

\* --------------------------------------------------------- program constants
\* u8::MAX
U8Max == 255
\* u16 arithmetic wraps at 2^16
U16Mod == 65536
\* u8 truncation of `as u8`
U8Mod == 256

VARIABLES
    origin,     \* "none" | "from_image" | "literal": how the TextImage was built
    opts,       \* the Options handed to from_image
    raster,     \* what thumbnail_exact returned: rows of RGB triples
    wanted,     \* the colour mode the caller wants: "full" | "background"
    img,        \* the TextImage: [width, height, pixels]
    buffer,     \* the String handed to to_buffer
    prior,      \* the buffer's content before the first to_buffer call
    calls,      \* to_buffer calls made
    panicked,   \* an index was out of bounds
    rgbIn,      \* the pixel handed to luminance (<<>>: none)
    lum,        \* the luminance (-1: not computed)
    glyph       \* what get_char returned ("none": not called)

vars == <<origin, opts, raster, wanted, img, buffer, prior, calls,
          panicked, rgbIn, lum, glyph>>

imgVars == <<origin, opts, raster, wanted, img, buffer, prior, calls,
             panicked>>
palVars == <<rgbIn, lum, glyph>>

\* ------------------------------------------------------------------ values
None == <<>>
Some(v) == <<v>>

ESC == "ESC"
Panic == "PANIC"

Black == <<0, 0, 0>>
White == <<255, 255, 255>>
Red == <<255, 0, 0>>
Teal == <<7, 64, 128>>

\* the samples a raster is made of
Colours == {Black, White, Red, Teal}
\* the colours and glyphs of struct-literal cells
LiteralColours == {Red, Teal}
LiteralGlyphs == {" ", "@"}

\* the buffer's content before the first call
Priors == {<<>>, <<"x">>}

ColourModes == {"full", "background"}

Channels ==
    {c \in 0..U8Max : c <= ChanLow \/ c >= U8Max - ChanLow \/ c % ChanStep = 0}
Triples == Channels \X Channels \X Channels

\* ----------------------------------------------------------------- palette
PALETTE == <<" ", ".", ":", ";", "+", "o", "O", "&", "@", "#">>

\* slice[i] of Rust: bounds-checked, zero-based
Index(s, i) == IF i + 1 \in DOMAIN s THEN s[i + 1] ELSE Panic

rgb(p) == <<p[1], p[2], p[3]>>

U16(x) == x % U16Mod

LuminanceWeight2(p) ==
    LET r == p[1]
        g == p[2]
        b == p[3]
        sum == U16(U16(U16(r * 2) + U16(g * 4)) + b)
    IN  (sum \div 8) % U8Mod

\* (((r << 1) + r + (g << 2) + b) >> 3) as u8, on u16
luminance(p) ==
    LET r == p[1]
        g == p[2]
        b == p[3]
        sum == U16(U16(U16(U16(r * 2) + r) + U16(g * 4)) + b)
    IN  (sum \div 8) % U8Mod

Clamp(x, lo, hi) == IF x < lo THEN lo ELSE IF x > hi THEN hi ELSE x

\* luminance as f32 / (u8::MAX as f32 / PALETTE.len() as f32), then `as usize`.
\* 255/10 = 25.5 is exact in f32, and l / 25.5 = 2l/51 is either an integer or at
\* least 1/51 away from one, so the f32 quotient truncates to floor(l * N / 255).
BucketIdx256(l) == (l * Len(PALETTE)) \div (U8Max + 1)

BucketIdx(l) == (l * Len(PALETTE)) \div U8Max

GetCharNoClamp(l) == Index(PALETTE, BucketIdx(l))

get_char(l) == Index(PALETTE, Clamp(BucketIdx(l), 0, Len(PALETTE) - 1))

\* ------------------------------------------------------------- from_image
\* image.get_pixel(x, y) on the raster thumbnail_exact returned
get_pixel(r, x, y) == r[y + 1][x + 1]

\* thumbnail_exact(width, height): a raster of exactly that size, any samples
Rasters(w, h) == [1..h -> [1..w -> Colours]]

MakePixelFull(p) ==
    LET color == rgb(p)
    IN  [c |-> get_char(luminance(p)), b |-> Some(color), f |-> Some(color)]

\* the loop body: b = Some(color), f = None, c = ' ' as f is None
MakePixel(p) ==
    LET color == rgb(p)
        b == Some(color)
        f == None
        c == IF f # None THEN get_char(luminance(p)) ELSE " "
    IN  [c |-> c, b |-> b, f |-> f]

RECURSIVE RowPixelsShort(_, _, _, _)
RowPixelsShort(r, y, x, w) ==
    IF x + 1 >= w THEN <<>>
    ELSE <<MakePixel(get_pixel(r, x, y))>> \o RowPixelsShort(r, y, x + 1, w)

\* for x in 0..width: push the pixel of sample (x, y)
RECURSIVE RowPixels(_, _, _, _)
RowPixels(r, y, x, w) ==
    IF x >= w THEN <<>>
    ELSE <<MakePixel(get_pixel(r, x, y))>> \o RowPixels(r, y, x + 1, w)

\* for y in 0..height
RECURSIVE AllPixels(_, _, _, _)
AllPixels(r, y, w, h) ==
    IF y >= h THEN <<>>
    ELSE RowPixels(r, y, 0, w) \o AllPixels(r, y + 1, w, h)

from_image(r, o) ==
    [width |-> o.width, height |-> o.height,
     pixels |-> AllPixels(r, 0, o.width, o.height)]

\* -------------------------------------------------------------- to_buffer
Digits == <<"0", "1", "2", "3", "4", "5", "6", "7", "8", "9">>

\* a colour value in an escape sequence: decimal, no leading zeros
RECURSIVE Dec(_)
Dec(n) == IF n < 10 THEN <<Digits[n + 1]>>
          ELSE Dec(n \div 10) \o <<Digits[(n % 10) + 1]>>

ColourParams(c) == Dec(c[1]) \o <<";">> \o Dec(c[2]) \o <<";">> \o Dec(c[3])

\* s.truecolor(r, g, b): the foreground escape ESC[38;2;{r};{g};{b}m
truecolor(c) == <<ESC, "[", "3", "8", ";", "2", ";">> \o ColourParams(c) \o <<"m">>

\* s.on_truecolor(r, g, b): the background escape ESC[48;2;{r};{g};{b}m
on_truecolor(c) == <<ESC, "[", "4", "8", ";", "2", ";">> \o ColourParams(c) \o <<"m">>

\* the reset that ends a styled run
Reset == <<ESC, "[", "0", "m">>

\* format!("{}", styled string): the escapes of the colours set, the text, the reset
Styled(c, f, b) ==
    (IF f # None THEN truecolor(f[1]) ELSE <<>>)
        \o (IF b # None THEN on_truecolor(b[1]) ELSE <<>>)
        \o <<c>> \o Reset

PushStrReplace(buf, s) == s

\* String::push_str
push_str(buf, s) == buf \o s

\* String::push
push(buf, c) == buf \o <<c>>

RenderPixelMerged(p, buf) ==
    IF p.f = None THEN push(buf, p.c) ELSE push_str(buf, Styled(p.c, p.f, p.b))

\* match (f, b): three arms that push a styled string, and buffer.push(c)
RenderPixel(p, buf) ==
    IF p.f # None /\ p.b # None THEN push_str(buf, Styled(p.c, p.f, p.b))
    ELSE IF p.f # None THEN push_str(buf, Styled(p.c, p.f, None))
    ELSE IF p.b # None THEN push_str(buf, Styled(p.c, None, p.b))
    ELSE push(buf, p.c)

\* buffer.push('\r'); buffer.push('\n')
RowTerminator(buf) == push(push(buf, "\r"), "\n")

\* the two loops over the buffer; an index out of bounds panics and leaves
\* what was pushed
RECURSIVE RenderFrom(_, _, _, _)
RenderFrom(t, y, x, buf) ==
    IF y >= t.height THEN buf
    ELSE IF x >= t.width THEN RenderFrom(t, y + 1, 0, RowTerminator(buf))
    ELSE LET idx == y * t.width + x
         IN  IF idx + 1 \notin DOMAIN t.pixels THEN buf
             ELSE RenderFrom(t, y, x + 1, RenderPixel(Index(t.pixels, idx), buf))

IndexInBounds(t) ==
    \A y \in 0..(t.height - 1) : \A x \in 0..(t.width - 1) :
        y * t.width + x + 1 \in DOMAIN t.pixels

\* the buffer after self.to_buffer(buffer)
to_buffer(t, buf) == RenderFrom(t, 0, 0, buf)

\* ----------------------------------------------------------------- actions
NoImage == [width |-> 0, height |-> 0, pixels |-> <<>>]
NoOpts == [width |-> 0, height |-> 0]

Shapes(n) == {s \in (0..n) \X (0..n) : s[1] * s[2] <= n}

LiteralPixels ==
    [c : LiteralGlyphs,
     b : {None} \cup {Some(k) : k \in LiteralColours},
     f : {None} \cup {Some(k) : k \in LiteralColours}]

Init ==
    /\ origin = "none"
    /\ opts = NoOpts
    /\ raster = <<>>
    /\ wanted = "none"
    /\ img = NoImage
    /\ prior \in Priors
    /\ buffer = prior
    /\ calls = 0
    /\ panicked = FALSE
    /\ rgbIn = <<>>
    /\ lum = -1
    /\ glyph = "none"

\* TextImage::from_image(image, Options { width, height })
FromImage ==
    /\ origin = "none"
    /\ \E s \in Shapes(MaxCells) : \E r \in Rasters(s[1], s[2]) :
        /\ opts' = [width |-> s[1], height |-> s[2]]
        /\ raster' = r
        /\ img' = from_image(r, opts')
    /\ wanted' \in ColourModes
    /\ origin' = "from_image"
    /\ UNCHANGED <<buffer, prior, calls, panicked>>
    /\ UNCHANGED palVars

\* TextImage { width, height, pixels } written inside the crate (the fields are
\* private to it), with pixels.len() == width * height >= 1 and any mix of
\* present and absent colours
Literal ==
    /\ origin = "none"
    /\ \E s \in Shapes(MaxLiteralCells) :
        /\ s[1] * s[2] >= 1
        /\ \E px \in [1..(s[1] * s[2]) -> LiteralPixels] :
            img' = [width |-> s[1], height |-> s[2], pixels |-> px]
    /\ origin' = "literal"
    /\ UNCHANGED <<opts, raster, wanted, buffer, prior, calls, panicked>>
    /\ UNCHANGED palVars

\* img.to_buffer(&mut buffer); &self: the TextImage is only read
ToBuffer ==
    /\ origin # "none"
    /\ ~panicked
    /\ calls < MaxCalls
    /\ buffer' = to_buffer(img, buffer)
    /\ panicked' = ~IndexInBounds(img)
    /\ calls' = calls + 1
    /\ UNCHANGED <<origin, opts, raster, wanted, img, prior>>
    /\ UNCHANGED palVars

Next == FromImage \/ Literal \/ ToBuffer

Spec == Init /\ [][Next]_vars

\* --------------------------------------------- the palette functions alone
InitPalette ==
    /\ origin = "none"
    /\ opts = NoOpts
    /\ raster = <<>>
    /\ wanted = "none"
    /\ img = NoImage
    /\ prior = <<>>
    /\ buffer = <<>>
    /\ calls = 0
    /\ panicked = FALSE
    /\ glyph = "none"
    /\ \/ rgbIn \in Triples /\ lum = -1
       \/ rgbIn = <<>> /\ lum \in 0..U8Max

\* let l = luminance(p)
Luminance ==
    /\ rgbIn # <<>>
    /\ lum = -1
    /\ lum' = luminance(rgbIn)
    /\ UNCHANGED <<rgbIn, glyph>>
    /\ UNCHANGED imgVars

\* get_char(l)
GetChar ==
    /\ lum # -1
    /\ glyph = "none"
    /\ glyph' = get_char(lum)
    /\ UNCHANGED <<rgbIn, lum>>
    /\ UNCHANGED imgVars

NextPalette == Luminance \/ GetChar

SpecPalette == InitPalette /\ [][NextPalette]_vars

\* ================================================================= claims
Range(s) == {s[i] : i \in DOMAIN s}

IsPrefix(s, t) == Len(s) <= Len(t) /\ SubSeq(t, 1, Len(s)) = s

\* everything the to_buffer calls appended
Appended == SubSeq(buffer, Len(prior) + 1, Len(buffer))

Sample(x, y) == raster[y + 1][x + 1]

CrlfAt(s) == {i \in 1..(Len(s) - 1) : s[i] = "\r" /\ s[i + 1] = "\n"}

\* the position of the k-th CRLF of s
KthCrlf(s, k) ==
    CHOOSE i \in CrlfAt(s) : Cardinality({j \in CrlfAt(s) : j < i}) = k - 1

\* the text between the (k-1)-th CRLF and the k-th
Segment(s, k) ==
    SubSeq(s, IF k = 1 THEN 1 ELSE KthCrlf(s, k - 1) + 2, KthCrlf(s, k) - 1)

RECURSIVE Concat(_)
Concat(ss) == IF ss = <<>> THEN <<>> ELSE Head(ss) \o Concat(Tail(ss))

\* the cells of row k (from 1) of t, in column order
RowCells(t, k) == [x \in 1..t.width |-> t.pixels[(k - 1) * t.width + x]]

WellFormed(t) == Len(t.pixels) = t.width * t.height

\* ---- C1
\* C1: for Options with width > 0 and height > 0, from_image returns a TextImage
\* with the requested width and height and exactly width * height cells in
\* row-major order (the cell at y*width + x comes from sample (x, y)); this still
\* holds after any number of to_buffer calls, whose index y*width + x is in bounds.
C1_GridInvariant ==
    (origin = "from_image" /\ opts.width > 0 /\ opts.height > 0) =>
        /\ img.width = opts.width
        /\ img.height = opts.height
        /\ Len(img.pixels) = opts.width * opts.height
        /\ \A y \in 0..(opts.height - 1) : \A x \in 0..(opts.width - 1) :
            /\ y * img.width + x + 1 \in DOMAIN img.pixels
            /\ img.pixels[y * img.width + x + 1].b = Some(Sample(x, y))
        /\ ~panicked

C1_Witness ==
    /\ origin = "from_image"
    /\ opts = [width |-> 2, height |-> 2]
    /\ raster[1][2] # raster[2][1]
    /\ calls = 2

\* ---- C2
\* C2: for every TextImage with width w and height h, the text one to_buffer call
\* appends holds exactly h CRLF pairs, each immediately preceded by the w rendered
\* cells of its row in column order; the text ends with a CRLF and no line feed
\* stands without its carriage return.
C2_RowSeparation ==
    (calls = 1 /\ ~panicked) =>
        LET s == Appended
        IN  /\ Cardinality(CrlfAt(s)) = img.height
            /\ \A k \in 1..img.height :
                Segment(s, k) =
                    Concat([x \in 1..img.width |->
                                RenderPixel(RowCells(img, k)[x], <<>>)])
            /\ \A i \in 1..Len(s) : s[i] = "\n" => (i > 1 /\ s[i - 1] = "\r")
            /\ Len(s) >= 2
            /\ SubSeq(s, Len(s) - 1, Len(s)) = <<"\r", "\n">>

\* the same for the TextImages with at least one row
RowSeparationPositive ==
    (calls = 1 /\ ~panicked /\ img.height >= 1) => C2_RowSeparation

\* ---- C3
\* a u8 in decimal, digit by place
DecPlaces(n) ==
    (IF n >= 100 THEN <<Digits[(n \div 100) + 1]>> ELSE <<>>)
        \o (IF n >= 10 THEN <<Digits[((n \div 10) % 10) + 1]>> ELSE <<>>)
        \o <<Digits[(n % 10) + 1]>>

Rgb3(c) == DecPlaces(c[1]) \o <<";">> \o DecPlaces(c[2]) \o <<";">> \o DecPlaces(c[3])
FgParams(c) == <<"3", "8", ";", "2", ";">> \o Rgb3(c)
BgParams(c) == <<"4", "8", ";", "2", ";">> \o Rgb3(c)
FgEscape(c) == <<"ESC", "[">> \o FgParams(c) \o <<"m">>
BgEscape(c) == <<"ESC", "[">> \o BgParams(c) \o <<"m">>
ResetEscape == <<"ESC", "[", "0", "m">>

\* the cell's text as the claim states it
ClaimedCell(p) ==
    IF p.f # None /\ p.b # None
        THEN FgEscape(p.f[1]) \o BgEscape(p.b[1]) \o <<p.c>> \o ResetEscape
    ELSE IF p.f # None THEN FgEscape(p.f[1]) \o <<p.c>> \o ResetEscape
    ELSE IF p.b # None THEN BgEscape(p.b[1]) \o <<p.c>> \o ResetEscape
    ELSE <<p.c>>

ClaimedText(t) ==
    Concat([k \in 1..t.height |->
        Concat([x \in 1..t.width |-> ClaimedCell(RowCells(t, k)[x])])
            \o <<"\r", "\n">>])

Scenario ==
    [width |-> 2, height |-> 1,
     pixels |-> <<[c |-> "@", b |-> Some(Red), f |-> None],
                  [c |-> " ", b |-> None, f |-> None]>>]

ScenarioText ==
    <<"ESC", "[", "4", "8", ";", "2", ";", "2", "5", "5", ";", "0", ";", "0", "m",
      "@", "ESC", "[", "0", "m", " ", "\r", "\n">>

C3_ScenarioReached == img = Scenario /\ buffer = prior \o ScenarioText

\* ---- C4
\* C4: from_image has two caller-selectable colour modes: in full mode every cell
\* has foreground = background = the sample and the glyph get_char(luminance(sample));
\* in background-only mode the foreground is absent and the glyph is a space.
C4_TwoModes ==
    origin = "from_image" =>
        \A y \in 0..(opts.height - 1) : \A x \in 0..(opts.width - 1) :
            LET p == img.pixels[y * opts.width + x + 1]
            IN  /\ wanted = "full" =>
                    /\ p.b = Some(Sample(x, y))
                    /\ p.f = Some(Sample(x, y))
                    /\ p.c = get_char(luminance(Sample(x, y)))
                /\ wanted = "background" => (p.f = None /\ p.c = " ")

\* ---- C5
\* C5: from_image with a width or a height of 0 fails: it returns no TextImage,
\* so no to_buffer call appends an empty rendering for such options.
C5_FailFast ==
    ~(origin = "from_image" /\ (opts.width = 0 \/ opts.height = 0))

\* ---- C6
\* C6: a to_buffer call leaves the TextImage unchanged, keeps the buffer's prior
\* content as a prefix, and what it appends is what rendering the TextImage
\* into an empty buffer gives, whatever the buffer held and however many calls
\* came before.
C6_ReadOnlyRender ==
    [][(calls' = calls + 1) =>
          /\ img' = img
          /\ IsPrefix(buffer, buffer')
          /\ IsPrefix(prior, buffer')
          /\ SubSeq(buffer', Len(buffer) + 1, Len(buffer')) = to_buffer(img, <<>>)]_vars

C6_Witness ==
    /\ calls = 2
    /\ prior # <<>>
    /\ Len(buffer) > Len(prior) + 4

\* ---- C7
\* C7: luminance(rgb) = (3r + 4g + b) >> 3 with a 16-bit sum that does not
\* overflow and a result in 0..255; get_char indexes the palette inside [0, 9];
\* get_char(0) is ' ' and get_char(255) is '#', so black maps to the first glyph
\* and white to the last.
C7_PipelineInRange ==
    /\ (rgbIn # <<>> /\ lum # -1) =>
        LET sum == 3 * rgbIn[1] + 4 * rgbIn[2] + rgbIn[3]
        IN  /\ sum < U16Mod
            /\ sum \div 8 <= U8Max
            /\ lum = sum \div 8
    /\ glyph # "none" =>
        /\ glyph \in Range(PALETTE)
        /\ lum = 0 => glyph = " "
        /\ lum = U8Max => glyph = "#"
        /\ rgbIn = Black => glyph = PALETTE[1]
        /\ rgbIn = White => glyph = PALETTE[Len(PALETTE)]

C7_Witness == rgbIn = White /\ lum = 255 /\ glyph = "#"

\* ---- C8
Min(a, b) == IF a <= b THEN a ELSE b

\* C8 as stated: get_char(l) is the palette entry min(floor(l / (256/N)), N-1).
C8_Buckets256 ==
    glyph # "none" =>
        glyph = PALETTE[Min((lum * Len(PALETTE)) \div 256, Len(PALETTE) - 1) + 1]

\* C8 amended: the bucket width is 255/N = 25.5: get_char(l) is entry k exactly
\* when 25.5 k <= l < 25.5 (k + 1), and 255 alone is clamped into entry N-1.
C8_Buckets255 ==
    glyph # "none" =>
        \E k \in 0..(Len(PALETTE) - 1) :
            /\ glyph = PALETTE[k + 1]
            /\ \/ 51 * k <= 2 * lum /\ 2 * lum < 51 * (k + 1)
               \/ k = Len(PALETTE) - 1 /\ lum = 255

C8_Witness == rgbIn = <<>> /\ lum = 51 /\ glyph = ":"

\* ---- C9
Weight2(t) == 2 * t[1] + 4 * t[2] + t[3]
Weight3(t) == 3 * t[1] + 4 * t[2] + t[3]

\* C9 as stated: luminance is non-decreasing in 2r + 4g + b.
C9_MonotoneIn2r ==
    (rgbIn # <<>> /\ lum # -1) =>
        \A t \in Triples : Weight2(rgbIn) <= Weight2(t) => lum <= luminance(t)

\* C9 amended: luminance is non-decreasing in 3r + 4g + b.
C9_MonotoneIn3r ==
    (rgbIn # <<>> /\ lum # -1) =>
        \A t \in Triples : Weight3(rgbIn) <= Weight3(t) => lum <= luminance(t)

C9_Witness == rgbIn = <<3, 0, 0>> /\ lum = 1

\* ---- C10
DigitChars == Range(Digits)

\* the position of the "m" that ends the escape sequence starting at i
EscapeEnd(s, i) == CHOOSE j \in i..Len(s) : s[j] = "m" /\ \A k \in i..(j - 1) : s[k] # "m"

\* the escape sequence at i is a reset or a background colour alone
BackgroundOrReset(s, i) ==
    /\ i + 3 <= Len(s)
    /\ s[i + 1] = "["
    /\ \/ s[i + 2] = "0" /\ s[i + 3] = "m"
       \/ /\ s[i + 2] = "4" /\ s[i + 3] = "8"
          /\ \E j \in i..Len(s) : s[j] = "m"
          /\ Cardinality({k \in i..EscapeEnd(s, i) : s[k] = ";"}) = 4

\* C10: every cell from_image makes has no foreground, the space glyph and the
\* sample (x, y) as background, so its rendering holds no foreground escape and
\* no glyph but the space.
C10_BackgroundOnly ==
    origin = "from_image" =>
        /\ Len(img.pixels) = opts.width * opts.height
        /\ \A y \in 0..(opts.height - 1) : \A x \in 0..(opts.width - 1) :
            LET p == img.pixels[y * opts.width + x + 1]
            IN  p.f = None /\ p.c = " " /\ p.b = Some(Sample(x, y))
        /\ \A i \in 1..Len(Appended) :
            /\ Appended[i] \in {"ESC", "[", ";", "m", " ", "\r", "\n"} \cup DigitChars
            /\ Appended[i] = "ESC" => BackgroundOrReset(Appended, i)

C10_Witness ==
    /\ origin = "from_image"
    /\ calls >= 1
    /\ Len(img.pixels) >= 2
    /\ \E i \in 1..Len(Appended) : Appended[i] = "ESC"

====
